---- MODULE Spec2Model ----
(***************************************************************************)
(* Model of the recurring-billing engine of modern-python/app:             *)
(*   services/billing_service.py  BillingService (job driver, attempts)    *)
(*   services/payment_service.py  PaymentService.process_payment           *)
(*   models.py                    Subscription, BillingHistory, BillingJob *)
(*                                                                         *)
(* The store is modelled as the committed tables (subs, history, jobs)     *)
(* plus, per job driver, the state of its AsyncSession: the objects it has *)
(* loaded (sess), the rows it has added but not committed (pending) and    *)
(* the BillingJob object it holds (job).  A commit writes the session's    *)
(* changes to the committed tables.                                        *)
(*                                                                         *)
(* Time is an integer number of ticks, TicksPerDay ticks to a day, so that *)
(* a datetime (any tick) and a date (a tick that is a multiple of          *)
(* TicksPerDay, i.e. midnight) can be told apart.                          *)
(***************************************************************************)
EXTENDS Integers, Sequences, FiniteSets, Bags, TLC

\* ---------------------------------------------------------------- bounds
NSubs == 2            \* seeded subscriptions of the small population
MaxDue == 25          \* largest due set of the large population
MaxJobs == 2          \* billing-cycle jobs that may be triggered
MaxTicks == 1         \* clock ticks that may pass
MaxStoreErrors == 1   \* store operations of a driver that may fail
MaxFailing == 1       \* subscriptions of the large population whose attempt may fail
Window == 2           \* gateway answers overtake each other within this window
MaxReasons == 1       \* decline reasons the gateway draws from
TicksPerDay == 2      \* clock resolution
MaxCancels == 2       \* calls of cancel_subscription
MaxDays == 3          \* whole days that may pass in the subscription lifecycle
MaxOverride == 1      \* largest trial_days_override a client sends
MaxCreated == 1       \* subscriptions that may be created
MaxCalcDate == 30     \* latest date handed to _calculate_next_billing_date
MaxLegacy == 1        \* rows of a table of the legacy database

\* ------------------------------------------------------ program constants
batch_size == 10

JobIds == 1..MaxJobs
NoDate == -1
NoReason == "None"
Empty == <<>>
NoReply == [n |-> 0, id |-> 0, value |-> FALSE]
NoOverride == -1
NoCalc == [current_date |-> NoDate, billing_cycle |-> "None", result |-> NoDate]

timedelta(days) == days * TicksPerDay
DateOf(t) == t - (t % TicksPerDay)
T0 == timedelta(400) + 1

Min(a, b) == IF a < b THEN a ELSE b

\* ------------------------------------------------------------------ plans
\* subscription_plans rows: read-only input of the engine.
Plans ==
    << [billing_cycle |-> "monthly", price |-> 30,  trial_days |-> 0],
       [billing_cycle |-> "weekly",  price |-> 10,  trial_days |-> 0],
       [billing_cycle |-> "yearly",  price |-> 300, trial_days |-> 2] >>

PlanOf(s) == ((s - 1) % 3) + 1

\* ------------------------------------------------------- date arithmetic
\* Mutant of calculate_next_billing_date: a calendar month of 31 days.
calculate_next_billing_date_31(current_date, billing_cycle) ==
    IF billing_cycle = "monthly" THEN current_date + timedelta(31)
    ELSE IF billing_cycle = "yearly" THEN current_date + timedelta(365)
    ELSE IF billing_cycle = "weekly" THEN current_date + timedelta(7)
    ELSE current_date + timedelta(31)

calculate_next_billing_date(current_date, billing_cycle) ==
    IF billing_cycle = "monthly" THEN current_date + timedelta(30)
    ELSE IF billing_cycle = "yearly" THEN current_date + timedelta(365)
    ELSE IF billing_cycle = "weekly" THEN current_date + timedelta(7)
    ELSE current_date + timedelta(30)

\* ---------------------------------------------------------------- gateway
failure_reasons ==
    << "Insufficient funds", "Card declined", "Payment method expired",
       "Billing address mismatch", "Risk assessment failed" >>

\* What the simulated gateway can do on one call: approve, decline with one
\* of the reasons, or raise Exception("Gateway timeout").
GatewayTimeout == "Gateway timeout"
Approved == "approved"
Declines == { failure_reasons[k] : k \in 1..Min(MaxReasons, Len(failure_reasons)) }
GatewayOutcomes == {Approved, GatewayTimeout} \cup Declines

process_payment(transaction_id, g) ==
    IF g = GatewayTimeout
    THEN [success |-> FALSE, transaction_id |-> transaction_id,
          failure_reason |-> "System error: Gateway timeout"]
    ELSE IF g = Approved
    THEN [success |-> TRUE, transaction_id |-> transaction_id,
          failure_reason |-> NoReason]
    ELSE [success |-> FALSE, transaction_id |-> transaction_id,
          failure_reason |-> g]

VARIABLES
    now,            \* the clock (datetime.utcnow())
    subs,           \* committed subscriptions table: id -> row
    history,        \* committed billing_history rows (a bag)
    jobs,           \* committed billing_jobs table: job_id -> row
    pc,             \* per job: position of its driver
    job,            \* per started driver: its BillingJob object
    subscriptions,  \* per job: the due list read at job start
    idx,            \* per job: loop variable i of the batch loop
    inflight,       \* per job: members of the current batch awaiting the gateway
    results,        \* per job: member -> result of its task, current batch
    sess,           \* per job: Subscription objects loaded in its session
    pending,        \* per job: BillingHistory objects added, not yet committed
    attempts,       \* history variable: outcome of every finished attempt
    batches,        \* history variable: per job, the batches started, in order
    storeErrors,    \* history variable: store failures injected so far
    initial,        \* subscriptions whose initial-billing task is queued
    reply,          \* the last return value of cancel_subscription
    overrides,      \* history variable: trial_days_override of each creation
    calc,           \* the last call of _calculate_next_billing_date
    config,         \* the MigrationConfig of the migration run
    legacy_db,      \* the legacy database: table -> rows
    modern_db,      \* the modern database as the migration sees it: table -> ids
    step,           \* position of migrate_all_data
    migration,      \* the results of migrate_all_data: step -> MigrationResult
    written         \* history variable: the tables written, in order

vars == << now, subs, history, jobs, pc, job, subscriptions, idx, inflight,
           results, sess, pending, attempts, batches, storeErrors, initial,
           reply, overrides, calc, config, legacy_db, modern_db, step,
           migration, written >>

store == << subs, history, jobs >>
driver == << pc, job, subscriptions, idx, inflight, results, sess, pending >>
ghost == << attempts, batches, storeErrors >>
etl == << config, legacy_db, modern_db, step, migration, written >>
api == << initial, reply, overrides, calc, etl >>

\* ------------------------------------------------------------- the store
Subscription(plan_id, status, next_billing_date, cancelled_at, trial_ends_at) ==
    [plan_id |-> plan_id, status |-> status,
     next_billing_date |-> next_billing_date, cancelled_at |-> cancelled_at,
     trial_ends_at |-> trial_ends_at]

\* BillingJob(job_id=..., job_type="billing_cycle", status="running",
\* started_at=utcnow()); the counters take the column default 0 on insert.
BillingJob(job_id, started_at) ==
    [job_id |-> job_id, status |-> "running",
     total_subscriptions |-> 0, processed_count |-> 0,
     success_count |-> 0, failure_count |-> 0,
     error_details |-> NoReason,
     started_at |-> started_at, completed_at |-> NoDate]

BillingHistory(subscription_id, amount, payment_result) ==
    [subscription_id |-> subscription_id, amount |-> amount,
     status |-> IF payment_result.success THEN "success" ELSE "failed",
     transaction_id |-> payment_result.transaction_id,
     failure_reason |-> payment_result.failure_reason]

\* A Subscription object in a session: its attributes and the values they
\* had when loaded (a flush writes only the attributes that differ).
Load(row) ==
    [plan_id |-> row.plan_id, status |-> row.status,
     next_billing_date |-> row.next_billing_date,
     loaded |-> [status |-> row.status,
                 next_billing_date |-> row.next_billing_date]]

\* Mutant of DueIds: subscriptions that are past due are read as well.
DueIds_WithPastDue(today) ==
    { s \in DOMAIN subs : subs[s].status \in {"active", "past_due"}
                          /\ subs[s].next_billing_date <= today }

\* select(Subscription).where(status == ACTIVE, next_billing_date <= today)
DueIds(today) ==
    { s \in DOMAIN subs : subs[s].status = "active"
                          /\ subs[s].next_billing_date <= today }

RECURSIVE Ascending(_)
Ascending(S) ==
    IF S = {} THEN << >>
    ELSE LET m == CHOOSE x \in S : \A y \in S : x <= y
         IN << m >> \o Ascending(S \ {m})

\* Mutants of Slice: a slice one member too long, and one too short.
Slice_Overlap(seq, i, n) == SubSeq(seq, i + 1, Min(i + n + 1, Len(seq)))
Slice_Short(seq, i, n) == SubSeq(seq, i + 1, Min(i + n - 1, Len(seq)))

\* subscriptions[i:i + batch_size] of Python, i counted from 0.
Slice(seq, i, n) == SubSeq(seq, i + 1, Min(i + n, Len(seq)))

Range(seq) == { seq[k] : k \in 1..Len(seq) }

\* The committed subscriptions after session j flushes its dirty objects.
FlushSubs(j) ==
    [ s \in DOMAIN subs |->
        IF s \in DOMAIN sess[j]
        THEN LET o == sess[j][s]
             IN [subs[s] EXCEPT
                   !.status = IF o.status # o.loaded.status
                              THEN o.status ELSE @,
                   !.next_billing_date =
                       IF o.next_billing_date # o.loaded.next_billing_date
                       THEN o.next_billing_date ELSE @]
        ELSE subs[s] ]

\* The session's objects after a commit (expire_on_commit=False).
Flushed(j) ==
    [ s \in DOMAIN sess[j] |->
        [sess[j][s] EXCEPT
           !.loaded = [status |-> sess[j][s].status,
                       next_billing_date |-> sess[j][s].next_billing_date]] ]

Terminal(j) == pc[j] \in {"done", "crashed", "cancelled"}
Running(j) == pc[j] \notin {"idle", "done", "crashed", "cancelled"}

CanFail == storeErrors < MaxStoreErrors

\* A store operation of driver j raised: the transaction is lost and control
\* goes to the except clause of process_billing_cycle_async.
StoreFails(j) ==
    /\ CanFail
    /\ storeErrors' = storeErrors + 1
    /\ pc' = [pc EXCEPT ![j] = "handler"]
    /\ pending' = [pending EXCEPT ![j] = EmptyBag]
    /\ inflight' = [inflight EXCEPT ![j] = {}]

\* BillingService.get_job_status, lines 256-274, when the store answers: the
\* committed row of the job as a dict, or None if there is no such row.
get_job_status(job_id) ==
    IF job_id \in DOMAIN jobs
    THEN [job_id |-> jobs[job_id].job_id,
          status |-> jobs[job_id].status,
          total_subscriptions |-> jobs[job_id].total_subscriptions,
          processed |-> jobs[job_id].processed_count,
          successful |-> jobs[job_id].success_count,
          failed |-> jobs[job_id].failure_count,
          started_at |-> jobs[job_id].started_at,
          completed_at |-> jobs[job_id].completed_at,
          error_details |-> jobs[job_id].error_details]
    ELSE "None"

\* -------------------------------------------------------- the migration
\* The tables of both databases, in the order of the migration steps.
Tables == << "users", "subscription_plans", "subscriptions", "billing_history" >>

NoRows == [ t \in Range(Tables) |-> << >> ]
NoIds == [ t \in Range(Tables) |-> {} ]

\* No migration is run: the migrator is a script of its own.
NoMigration ==
    /\ config = [validate_data |-> TRUE, dry_run |-> FALSE]
    /\ legacy_db = NoRows
    /\ modern_db = NoIds
    /\ step = "idle"
    /\ migration = Empty
    /\ written = << >>

\* ---------------------------------------------------------------- Init
TypeInitDriver ==
    /\ pc = [j \in JobIds |-> "idle"]
    /\ job = Empty
    /\ subscriptions = [j \in JobIds |-> << >>]
    /\ idx = [j \in JobIds |-> 0]
    /\ inflight = [j \in JobIds |-> {}]
    /\ results = [j \in JobIds |-> Empty]
    /\ sess = [j \in JobIds |-> Empty]
    /\ pending = [j \in JobIds |-> EmptyBag]
    /\ attempts = {}
    /\ batches = [j \in JobIds |-> << >>]
    /\ storeErrors = 0
    /\ history = EmptyBag
    /\ jobs = Empty
    /\ now = T0
    /\ initial = {}
    /\ reply = NoReply
    /\ overrides = Empty
    /\ calc = NoCalc

\* States a seeded subscription can be in: active and long overdue, due
\* today, or due later today; past due after a failed attempt; cancelled.
SeedStates(s) ==
    { Subscription(PlanOf(s), "active", d, NoDate, NoDate) :
        d \in {DateOf(T0) - timedelta(40), DateOf(T0), DateOf(T0) + 1} }
    \cup { Subscription(PlanOf(s), "past_due", DateOf(T0) - timedelta(1),
                        NoDate, NoDate),
           Subscription(PlanOf(s), "cancelled", DateOf(T0) - timedelta(1),
                        T0 - 1, NoDate) }

Init ==
    /\ TypeInitDriver
    /\ NoMigration
    /\ subs \in { f \in [1..NSubs -> UNION { SeedStates(s) : s \in 1..NSubs }] :
                    \A s \in 1..NSubs : f[s] \in SeedStates(s) }

\* The small population with paused subscriptions as well.
InitPaused ==
    /\ TypeInitDriver
    /\ NoMigration
    /\ subs \in { f \in [1..NSubs ->
                          UNION { SeedStates(s) : s \in 1..NSubs }
                          \cup { Subscription(p, "paused",
                                              DateOf(T0) - timedelta(1),
                                              NoDate, NoDate) :
                                   p \in DOMAIN Plans }] :
                    \A s \in 1..NSubs :
                       \/ f[s] \in SeedStates(s)
                       \/ f[s] = Subscription(PlanOf(s), "paused",
                                              DateOf(T0) - timedelta(1),
                                              NoDate, NoDate) }

\* The large population: n active subscriptions, all due.
InitBatches ==
    /\ TypeInitDriver
    /\ NoMigration
    /\ \E n \in 0..MaxDue :
         subs = [ s \in 1..n |->
                    Subscription(PlanOf(s), "active",
                                 DateOf(T0) - timedelta(s % 3), NoDate,
                                 NoDate) ]

\* ------------------------------------------------------------- actions
\* main.process_billing_cycle: the job id is handed to the caller and the
\* driver is queued as a background task.
StartBillingCycle(j) ==
    /\ pc[j] = "idle"
    /\ pc' = [pc EXCEPT ![j] = "begin"]
    /\ UNCHANGED << api, now, store, job, subscriptions, idx, inflight, results,
                    sess, pending, ghost >>

\* Lines 102-110: create the job record and commit it.  billing_jobs.job_id
\* is unique (models.py line 145): the insert of a job id that has a row
\* raises, and control goes to the except clause.
Begin(j, ok) ==
    /\ pc[j] = "begin"
    /\ job' = [ k \in DOMAIN job \cup {j} |->
                  IF k = j THEN BillingJob(j, now) ELSE job[k] ]
    /\ IF j \in DOMAIN jobs
       THEN /\ ok
            /\ pc' = [pc EXCEPT ![j] = "handler"]
            /\ UNCHANGED << jobs, pending, inflight, storeErrors >>
       ELSE IF ok
       THEN /\ jobs' = jobs @@ (j :> BillingJob(j, now))
            /\ pc' = [pc EXCEPT ![j] = "query"]
            /\ UNCHANGED << pending, inflight, storeErrors >>
       ELSE /\ StoreFails(j)
            /\ UNCHANGED jobs
    /\ UNCHANGED << api, now, subs, history, subscriptions, idx, results, sess,
                    attempts, batches >>

\* Lines 112-124: read the subscriptions due for billing.
QueryDue(j, ok) ==
    /\ pc[j] = "query"
    /\ IF ok
       THEN LET due == Ascending(DueIds(DateOf(now)))
            IN /\ subscriptions' = [subscriptions EXCEPT ![j] = due]
               /\ sess' = [sess EXCEPT
                             ![j] = [ s \in Range(due) |-> Load(subs[s]) ]]
               /\ pc' = [pc EXCEPT ![j] = "total"]
               /\ UNCHANGED << pending, inflight, storeErrors >>
       ELSE /\ StoreFails(j)
            /\ UNCHANGED << subscriptions, sess >>
    /\ UNCHANGED << api, now, store, job, idx, results, attempts, batches >>

\* Mutant of SetTotal: the total is counted anew in the store, not taken
\* from the list that was read.
SetTotal_Recount(j, ok) ==
    /\ pc[j] = "total"
    /\ job' = [job EXCEPT
                 ![j].total_subscriptions = Cardinality(DueIds(DateOf(now)))]
    /\ IF ok
       THEN /\ jobs' = [jobs EXCEPT ![j] = job'[j]]
            /\ pc' = [pc EXCEPT ![j] = "loop"]
            /\ UNCHANGED << pending, inflight, storeErrors >>
       ELSE /\ StoreFails(j)
            /\ UNCHANGED jobs
    /\ UNCHANGED << api, now, subs, history, subscriptions, idx, results, sess,
                    attempts, batches >>

\* Lines 126-127: record the size of the due list and commit.
SetTotal(j, ok) ==
    /\ pc[j] = "total"
    /\ job' = [job EXCEPT ![j].total_subscriptions = Len(subscriptions[j])]
    /\ IF ok
       THEN /\ jobs' = [jobs EXCEPT ![j] = job'[j]]
            /\ pc' = [pc EXCEPT ![j] = "loop"]
            /\ UNCHANGED << pending, inflight, storeErrors >>
       ELSE /\ StoreFails(j)
            /\ UNCHANGED jobs
    /\ UNCHANGED << api, now, subs, history, subscriptions, idx, results, sess,
                    attempts, batches >>

\* process_billing_cycle_async(job_id) is called with the job id of a job
\* that has completed (the job id is an argument of the driver; only
\* main.process_billing_cycle draws a fresh uuid for it).  The new task has
\* its own session and local variables.
RestartBillingCycle(j) ==
    /\ pc[j] = "done"
    /\ j \in DOMAIN jobs
    /\ jobs[j].status = "completed"
    /\ pc' = [pc EXCEPT ![j] = "begin"]
    /\ subscriptions' = [subscriptions EXCEPT ![j] = << >>]
    /\ idx' = [idx EXCEPT ![j] = 0]
    /\ results' = [results EXCEPT ![j] = Empty]
    /\ sess' = [sess EXCEPT ![j] = Empty]
    /\ UNCHANGED << api, now, store, job, inflight, pending, ghost >>

\* Lines 131-140: the next batch; gather starts one task per member and each
\* task runs up to its gateway call.
StartBatch(j) ==
    /\ pc[j] = "loop"
    /\ idx[j] < Len(subscriptions[j])
    /\ LET batch == Slice(subscriptions[j], idx[j], batch_size)
       IN /\ inflight' = [inflight EXCEPT ![j] = Range(batch)]
          /\ batches' = [batches EXCEPT ![j] = Append(@, batch)]
    /\ results' = [results EXCEPT ![j] = Empty]
    /\ pc' = [pc EXCEPT ![j] = "gather"]
    /\ UNCHANGED << api, now, store, job, subscriptions, idx, sess, pending,
                    attempts, storeErrors >>

Outcome(g) ==
    IF g = Approved THEN "success"
    ELSE IF g = GatewayTimeout THEN "gateway_error" ELSE "declined"

\* Mutant of PaymentSucceeded: the new date is computed and not assigned.
PaymentSucceeded_NoAdvance(subscription, plan) ==
    [subscription EXCEPT !.status = "active"]

\* Lines 198-205: the Subscription object after a successful payment.
PaymentSucceeded(subscription, plan) ==
    [subscription EXCEPT
       !.next_billing_date =
           calculate_next_billing_date(subscription.next_billing_date,
                                       plan.billing_cycle),
       !.status = "active"]

\* Mutant of PaymentFailed: the failed payment leaves the status alone.
PaymentFailed_KeepsStatus(subscription) == subscription

\* Lines 209-211: the Subscription object after a failed payment.
PaymentFailed(subscription) ==
    [subscription EXCEPT !.status = "past_due"]

\* Lines 181-213: the gateway call of member s returns; the attempt adds its
\* BillingHistory object to the session and updates the Subscription object.
AttemptReturns(j, s, g) ==
    /\ pc[j] = "gather"
    /\ s \in inflight[j]
    /\ LET payment_result == process_payment(<< j, s >>, g)
           subscription == sess[j][s]
           plan == Plans[subscription.plan_id]
           billing_record == BillingHistory(s, plan.price, payment_result)
       IN /\ pending' = [pending EXCEPT
                           ![j] = @ (+) SetToBag({billing_record})]
          /\ IF payment_result.success
             THEN /\ sess' = [sess EXCEPT
                                ![j][s] = PaymentSucceeded(subscription, plan)]
                  /\ results' = [results EXCEPT ![j] = @ @@ (s :> "True")]
             ELSE /\ sess' = [sess EXCEPT ![j][s] = PaymentFailed(subscription)]
                  /\ results' = [results EXCEPT ![j] = @ @@ (s :> "False")]
    /\ inflight' = [inflight EXCEPT ![j] = @ \ {s}]
    /\ attempts' = attempts \cup
          {[job |-> j, sub |-> s, outcome |-> Outcome(g), gateway |-> g]}
    /\ UNCHANGED << api, now, store, pc, job, subscriptions, idx, batches,
                    storeErrors >>

\* Mutant of AttemptRaises: the exception leaves the attempt and the gather,
\* and reaches the except clause of the driver.
AttemptRaises_Abort(j, s) ==
    /\ pc[j] = "gather"
    /\ s \in inflight[j]
    /\ pc' = [pc EXCEPT ![j] = "handler"]
    /\ inflight' = [inflight EXCEPT ![j] = {}]
    /\ pending' = [pending EXCEPT ![j] = EmptyBag]
    /\ attempts' = attempts \cup
          {[job |-> j, sub |-> s, outcome |-> "exception", gateway |-> "none"]}
    /\ UNCHANGED << api, now, store, job, subscriptions, idx, results, sess,
                    batches, storeErrors >>

\* Lines 215-217: a statement of the attempt raised before the record was
\* added; the except clause logs it and returns False.
AttemptRaises(j, s) ==
    /\ pc[j] = "gather"
    /\ s \in inflight[j]
    /\ results' = [results EXCEPT ![j] = @ @@ (s :> "False")]
    /\ inflight' = [inflight EXCEPT ![j] = @ \ {s}]
    /\ attempts' = attempts \cup
          {[job |-> j, sub |-> s, outcome |-> "exception", gateway |-> "none"]}
    /\ UNCHANGED << api, now, store, pc, job, subscriptions, idx, sess, pending,
                    batches, storeErrors >>

IsException(result) == result = "Exception"

\* Mutant of Tally: the counters are assigned the tally of the batch, not
\* increased by it.
Tally_Assign(jobObj, res) ==
    LET n == Cardinality(DOMAIN res)
        e == Cardinality({ s \in DOMAIN res : IsException(res[s]) })
    IN [jobObj EXCEPT !.processed_count = n,
                      !.failure_count = e,
                      !.success_count = n - e]

\* Mutant of Tally: a result of False is counted as processed only.
Tally_OnlyTrue(jobObj, res) ==
    LET n == Cardinality(DOMAIN res)
        e == Cardinality({ s \in DOMAIN res : IsException(res[s]) })
        k == Cardinality({ s \in DOMAIN res : res[s] = "True" })
    IN [jobObj EXCEPT !.processed_count = @ + n,
                      !.failure_count = @ + e,
                      !.success_count = @ + k]

\* Lines 143-149: the job object after the results of a batch are counted.
Tally(jobObj, res) ==
    LET n == Cardinality(DOMAIN res)
        e == Cardinality({ s \in DOMAIN res : IsException(res[s]) })
    IN [jobObj EXCEPT !.processed_count = @ + n,
                      !.failure_count = @ + e,
                      !.success_count = @ + (n - e)]

\* Mutant of RecordBatch: the records are committed first and the
\* subscription updates by a second commit, which is the one that may raise.
RecordBatch_TwoCommits(j, ok) ==
    /\ pc[j] = "gather"
    /\ inflight[j] = {}
    /\ job' = [job EXCEPT ![j] = Tally(@, results[j])]
    /\ history' = history (+) pending[j]
    /\ IF ok
       THEN /\ jobs' = [jobs EXCEPT ![j] = job'[j]]
            /\ subs' = FlushSubs(j)
            /\ sess' = [sess EXCEPT ![j] = Flushed(j)]
            /\ pending' = [pending EXCEPT ![j] = EmptyBag]
            /\ pc' = [pc EXCEPT ![j] = "sleep"]
            /\ UNCHANGED << inflight, storeErrors >>
       ELSE /\ StoreFails(j)
            /\ UNCHANGED << subs, jobs, sess >>
    /\ UNCHANGED << api, now, subscriptions, idx, results, attempts, batches >>

\* Lines 140-151: gather has returned; count the results and commit.
RecordBatch(j, ok) ==
    /\ pc[j] = "gather"
    /\ inflight[j] = {}
    /\ job' = [job EXCEPT ![j] = Tally(@, results[j])]
    /\ IF ok
       THEN /\ jobs' = [jobs EXCEPT ![j] = job'[j]]
            /\ subs' = FlushSubs(j)
            /\ history' = history (+) pending[j]
            /\ sess' = [sess EXCEPT ![j] = Flushed(j)]
            /\ pending' = [pending EXCEPT ![j] = EmptyBag]
            /\ pc' = [pc EXCEPT ![j] = "sleep"]
            /\ UNCHANGED << inflight, storeErrors >>
       ELSE /\ StoreFails(j)
            /\ UNCHANGED << store, sess >>
    /\ UNCHANGED << api, now, subscriptions, idx, results, attempts, batches >>

\* Line 154 and the loop header: the delay between batches is over.
SleepDone(j) ==
    /\ pc[j] = "sleep"
    /\ idx' = [idx EXCEPT ![j] = @ + batch_size]
    /\ pc' = [pc EXCEPT ![j] = "loop"]
    /\ UNCHANGED << api, now, store, job, subscriptions, inflight, results, sess,
                    pending, ghost >>

\* Lines 156-159: the loop is over; complete the job.
Complete(j, ok) ==
    /\ pc[j] = "loop"
    /\ idx[j] >= Len(subscriptions[j])
    /\ job' = [job EXCEPT ![j].status = "completed", ![j].completed_at = now]
    /\ IF ok
       THEN /\ jobs' = [jobs EXCEPT ![j] = job'[j]]
            /\ pc' = [pc EXCEPT ![j] = "done"]
            /\ UNCHANGED << pending, inflight, storeErrors >>
       ELSE /\ StoreFails(j)
            /\ UNCHANGED jobs
    /\ UNCHANGED << api, now, subs, history, subscriptions, idx, results, sess,
                    attempts, batches >>

\* Lines 163-175: the except clause marks the job row failed, if the store
\* lets it; if that raises too the task dies with the row as it was.
Handler(j, ok) ==
    /\ pc[j] = "handler"
    /\ IF ok
       THEN /\ jobs' = [ k \in DOMAIN jobs |->
                           IF k = j
                           THEN [jobs[k] EXCEPT !.status = "failed",
                                                !.error_details = "error",
                                                !.completed_at = now]
                           ELSE jobs[k] ]
            /\ pc' = [pc EXCEPT ![j] = "done"]
       ELSE /\ pc' = [pc EXCEPT ![j] = "crashed"]
            /\ UNCHANGED jobs
    /\ UNCHANGED << api, now, subs, history, job, subscriptions, idx, inflight,
                    results, sess, pending, ghost >>

\* The driver task is cancelled while it awaits (asyncio.CancelledError is
\* not an Exception, so no except clause of the driver runs); the session is
\* closed and what it had not committed is dropped.
CancelDriver(j) ==
    /\ pc[j] \in {"query", "total", "gather", "sleep"}
    /\ pc' = [pc EXCEPT ![j] = "cancelled"]
    /\ inflight' = [inflight EXCEPT ![j] = {}]
    /\ pending' = [pending EXCEPT ![j] = EmptyBag]
    /\ UNCHANGED << api, now, store, job, subscriptions, idx, results, sess, ghost >>

Tick ==
    /\ now < T0 + MaxTicks
    /\ now' = now + 1
    /\ UNCHANGED << store, driver, ghost, api >>

\* ------------------------------------------- the subscription lifecycle
\* Line 36: trial_days = subscription_data.trial_days_override or
\* plan.trial_days (an override of None or of 0 is falsy).
TrialDays(trial_days_override, plan) ==
    IF trial_days_override # NoOverride /\ trial_days_override # 0
    THEN trial_days_override
    ELSE plan.trial_days

\* Mutant of create_subscription: the first billing date is a cycle ahead,
\* whether there is a trial or not.
create_subscription_NoTrialDate(t, plan_id, trial_days_override, status) ==
    LET plan == Plans[plan_id]
        trial_days == TrialDays(trial_days_override, plan)
    IN Subscription(plan_id, status,
                    calculate_next_billing_date(t, plan.billing_cycle), NoDate,
                    IF trial_days > 0 THEN t + timedelta(trial_days) ELSE NoDate)

\* Lines 43-48: the first billing date of a subscription without trial; the
\* else branch takes every cycle that is not monthly or yearly as weekly.
first_billing_date(t, billing_cycle) ==
    IF billing_cycle = "monthly" THEN t + timedelta(30)
    ELSE IF billing_cycle = "yearly" THEN t + timedelta(365)
    ELSE t + timedelta(7)

\* Lines 34-59: the Subscription that create_subscription builds at time t.
create_subscription(t, plan_id, trial_days_override, status) ==
    LET plan == Plans[plan_id]
        trial_days == TrialDays(trial_days_override, plan)
    IN IF trial_days > 0
       THEN Subscription(plan_id, status, t + timedelta(trial_days), NoDate,
                         t + timedelta(trial_days))
       ELSE Subscription(plan_id, status,
                         first_billing_date(t, plan.billing_cycle), NoDate,
                         NoDate)

\* main.create_subscription and BillingService.create_subscription: the row
\* is committed and the initial-billing task is queued; if the commit raises
\* the transaction is rolled back and nothing is queued.
CreateSubscription(plan_id, trial_days_override, status, ok) ==
    /\ Cardinality(DOMAIN overrides) < MaxCreated
    /\ IF ok
       THEN /\ subs' = Append(subs, create_subscription(now, plan_id,
                                       trial_days_override, status))
            /\ initial' = initial \cup {Len(subs) + 1}
            /\ overrides' = overrides @@ (Len(subs) + 1 :> trial_days_override)
            /\ UNCHANGED storeErrors
       ELSE /\ CanFail
            /\ storeErrors' = storeErrors + 1
            /\ UNCHANGED << subs, initial, overrides >>
    /\ UNCHANGED << now, history, jobs, driver, attempts, batches, reply,
                    calc, etl >>

\* process_initial_billing, lines 73-96: the task loads the subscription in
\* a session of its own and, if there is no trial, runs one billing attempt.
\* The task never commits: the record and the update of the attempt are
\* dropped when its session is closed.
InitialBilling(s, g) ==
    /\ s \in initial
    /\ initial' = initial \ {s}
    /\ IF subs[s].trial_ends_at = NoDate
       THEN attempts' = attempts \cup
               {[job |-> 0, sub |-> s, outcome |-> Outcome(g), gateway |-> g]}
       ELSE g = Approved /\ UNCHANGED attempts
    /\ UNCHANGED << now, store, driver, batches, storeErrors, reply,
                    overrides, calc, etl >>

\* cancel_subscription, lines 230-251: False if there is no such
\* subscription; otherwise status and cancelled_at are set and committed and
\* the result is True; if the store raises, the transaction is rolled back
\* and the result is False.
CancelSubscription(subscription_id, ok) ==
    /\ reply.n < MaxCancels
    /\ IF subscription_id \notin DOMAIN subs
       THEN /\ reply' = [n |-> reply.n + 1, id |-> subscription_id,
                         value |-> FALSE]
            /\ ok
            /\ UNCHANGED << subs, storeErrors >>
       ELSE IF ok
       THEN /\ subs' = [subs EXCEPT ![subscription_id].status = "cancelled",
                                    ![subscription_id].cancelled_at = now]
            /\ reply' = [n |-> reply.n + 1, id |-> subscription_id,
                         value |-> TRUE]
            /\ UNCHANGED storeErrors
       ELSE /\ CanFail
            /\ storeErrors' = storeErrors + 1
            /\ reply' = [n |-> reply.n + 1, id |-> subscription_id,
                         value |-> FALSE]
            /\ UNCHANGED subs
    /\ UNCHANGED << now, history, jobs, driver, attempts, batches, initial,
                    overrides, calc, etl >>

\* A day passes.
NextDay ==
    /\ now < T0 + timedelta(MaxDays)
    /\ now' = now + timedelta(1)
    /\ UNCHANGED << store, driver, ghost, api >>

\* ------------------------------------------------------ date arithmetic
\* The billing_cycle strings handed to _calculate_next_billing_date: the
\* values of BillingCycle and strings that are none of them.
BillingCycleInputs ==
    {"monthly", "yearly", "weekly", "daily", "quarterly", ""}

\* A call of _calculate_next_billing_date, lines 219-228: it reads its
\* arguments and returns a date; no attribute of the service and no row of
\* the store is read or written.
CalculateNextBillingDate(current_date, billing_cycle) ==
    /\ calc' = [current_date |-> current_date,
                billing_cycle |-> billing_cycle,
                result |-> calculate_next_billing_date(current_date,
                                                       billing_cycle)]
    /\ UNCHANGED << now, store, driver, ghost, initial, reply, overrides,
                    etl >>

\* The date computation of create_subscription, lines 41-49, for a plan
\* without trial whose billing_cycle is the given string, at time t.
FirstBillingDate(t, billing_cycle) ==
    /\ calc' = [current_date |-> t, billing_cycle |-> billing_cycle,
                result |-> first_billing_date(t, billing_cycle)]
    /\ UNCHANGED << now, store, driver, ghost, initial, reply, overrides,
                    etl >>

\* ------------------------------------------------------- the migration
\* Rows of the legacy billing_history table, as _transform_billing_data
\* hands them to the insert: read-only input of a migration run.
LegacyRows ==
    { [subscription_id |-> 1, amount |-> 30, status |-> st,
       transaction_id |-> << 0, 1 >>, failure_reason |-> NoReason] :
        st \in {"success", "failed"} }

\* DataMigrator._batch_insert_billing_history, lines 436-464, for a legacy
\* table of one row: INSERT ... ON CONFLICT (id) DO UPDATE SET status,
\* updated_at.  The id column is not modelled; target holds the stored row
\* that has the id of the legacy row, and is empty if there is none.  Without a
\* conflict the row is inserted, unless its transaction id is in the table
\* (transaction_id is unique, models.py line 125: the insert raises and the
\* transaction of the run is rolled back); with a conflict the status of the
\* stored row is overwritten.
MigrateBillingHistory(legacy, target) ==
    /\ legacy.subscription_id \in DOMAIN subs
    /\ IF target = {}
       THEN history' =
              IF \E r \in BagToSet(history) :
                    r.transaction_id = legacy.transaction_id
              THEN history
              ELSE history (+) SetToBag({legacy})
       ELSE \E r \in target :
              /\ target = {r}
              /\ r \in BagToSet(history)
              /\ history' = (history (-) SetToBag({r}))
                             (+) SetToBag({[r EXCEPT
                                              !.status = legacy.status]})
    /\ UNCHANGED << now, subs, jobs, driver, ghost, api >>

\* ------------------------------------------------- the migration pipeline
\* A missing value of a text column and of an integer column.
Null == "NULL"
NullId == 0

\* Rows a legacy table can hold, by id: a clean row and rows with a null
\* or an invalid value.
UserRows(id) ==
    { [id |-> id, email |-> "u@example.com", name |-> "Ann"],
      [id |-> id, email |-> "not-an-email", name |-> "Ann"],
      [id |-> id, email |-> Null, name |-> "Ann"],
      [id |-> id, email |-> "u@example.com", name |-> Null] }

SubscriptionRows(id) ==
    { [id |-> id, user_id |-> 1, plan_id |-> 1, status |-> "active"],
      [id |-> id, user_id |-> 1, plan_id |-> 1, status |-> "paused"],
      [id |-> id, user_id |-> 1, plan_id |-> 1, status |-> "invalid_status"],
      [id |-> id, user_id |-> 1, plan_id |-> 1, status |-> Null],
      [id |-> id, user_id |-> NullId, plan_id |-> 1, status |-> "active"] }

PlanRows(id) == { [id |-> id] }

BillingRows(id) == { [id |-> id, subscription_id |-> 1] }

\* The tables of up to MaxLegacy rows with ids 1, 2, ... drawn from Rows.
\* Rows[i] is the set of rows with id i.
TablesOf(Rows) ==
    UNION { { f \in [1..n -> UNION { Rows[i] : i \in 1..n }] :
                \A i \in 1..n : f[i] \in Rows[i] } : n \in 0..MaxLegacy }

LegacyIds == 1..MaxLegacy

Ids(df) == { df[i].id : i \in 1..Len(df) }

\* A migration run: any configuration, any legacy data, and a modern
\* database that is empty or holds one row of its own in every table or in
\* the users table.
InitEtl ==
    /\ TypeInitDriver
    /\ subs = << >>
    /\ config \in [validate_data : BOOLEAN, dry_run : BOOLEAN]
    /\ legacy_db \in
         { [users |-> u, subscription_plans |-> p, subscriptions |-> s,
            billing_history |-> b] :
             u \in TablesOf([i \in LegacyIds |-> UserRows(i)]),
             p \in TablesOf([i \in LegacyIds |-> PlanRows(i)]),
             s \in TablesOf([i \in LegacyIds |-> SubscriptionRows(i)]),
             b \in TablesOf([i \in LegacyIds |-> BillingRows(i)]) }
    /\ modern_db \in { NoIds, [ t \in Range(Tables) |-> {MaxLegacy + 1} ],
                       [NoIds EXCEPT !["users"] = {MaxLegacy + 1}] }
    /\ step = "idle"
    /\ migration = Empty
    /\ written = << >>

MigrationResult(success, records_processed, records_migrated, errors) ==
    [success |-> success, records_processed |-> records_processed,
     records_migrated |-> records_migrated, errors |-> errors]

\* _validate_user_data, lines 182-207: the list of errors (as a set; the
\* messages differ from each other).
validate_user_data(df) ==
    { "Null values found in required field: " \o f :
        f \in { g \in {"email", "name"} :
                  \E i \in 1..Len(df) : df[i][g] = Null } }
    \cup (IF \E i \in 1..Len(df) : df[i].email \in {Null, "not-an-email"}
          THEN {"Invalid email formats found"} ELSE {})
    \cup (IF \E i, k \in 1..Len(df) : i # k /\ df[i].email = df[k].email
          THEN {"Duplicate emails found"} ELSE {})

valid_statuses ==
    {"active", "cancelled", "past_due", "trialing", "incomplete"}

\* _validate_subscription_data, lines 320-339.
validate_subscription_data(df) ==
    (IF \E i \in 1..Len(df) : df[i].user_id = NullId
     THEN {"Null values found in required field: user_id"} ELSE {})
    \cup (IF \E i \in 1..Len(df) : df[i].status = Null
          THEN {"Null values found in required field: status"} ELSE {})
    \cup (IF \E i \in 1..Len(df) : df[i].status \notin valid_statuses
          THEN {"Invalid status values found"} ELSE {})

\* The modern database rejects the rows of a table: a null in a NOT NULL
\* column, a second row with an email that is unique, or a foreign key to a
\* row that is not there (models.py lines 43-44, 84-85, 116).
Rejects(table, df) ==
    IF table = "users"
    THEN \/ \E i \in 1..Len(df) : df[i].email = Null \/ df[i].name = Null
         \/ \E i, k \in 1..Len(df) : i # k /\ df[i].email = df[k].email
    ELSE IF table = "subscriptions"
    THEN \E i \in 1..Len(df) :
            \/ df[i].user_id = NullId
            \/ df[i].status = Null
            \/ df[i].user_id \notin modern_db["users"]
            \/ df[i].plan_id \notin modern_db["subscription_plans"]
    ELSE IF table = "billing_history"
    THEN \E i \in 1..Len(df) :
            df[i].subscription_id \notin modern_db["subscriptions"]
    ELSE FALSE

Faults == {"none", "extract", "load"}

NextStep(name) ==
    IF name = "users" THEN "subscription_plans"
    ELSE IF name = "subscription_plans" THEN "subscriptions"
    ELSE IF name = "subscriptions" THEN "billing_history"
    ELSE "integrity_check"

\* Mutant of StepReturns: the loop goes on after an unsuccessful step.
StepReturns_NoBreak(name, result) ==
    /\ migration' = migration @@ (name :> result)
    /\ step' = NextStep(name)

\* migrate_all_data, lines 69-84: the result of a step is stored; after a
\* step that is not successful the loop is left and, one result being
\* unsuccessful, the integrity check is skipped.
StepReturns(name, result) ==
    /\ migration' = migration @@ (name :> result)
    /\ step' = IF result.success THEN NextStep(name) ELSE "returned"

\* The rows of a table are written in one transaction by
\* INSERT ... ON CONFLICT (id) DO UPDATE.
Writes(table, df) ==
    /\ modern_db' = [modern_db EXCEPT ![table] = @ \cup Ids(df)]
    /\ written' = Append(written, table)

\* Mutant of Loads: the rows are written in a dry run too.
Loads_WritesInDryRun(name, df, fault, message) ==
    IF fault = "load" \/ Rejects(name, df)
    THEN /\ StepReturns(name, MigrationResult(FALSE, Len(df), 0, {message}))
         /\ UNCHANGED << modern_db, written >>
    ELSE /\ StepReturns(name, MigrationResult(TRUE, Len(df), Len(df), {}))
         /\ Writes(name, df)

\* The load stage of a step and what the step returns after it (for
\* migrate_users lines 129-149): nothing is written in a dry run; a write
\* that raises is rolled back and makes the step fail.
Loads(name, df, fault, message) ==
    IF config.dry_run
    THEN /\ StepReturns(name, MigrationResult(TRUE, Len(df), Len(df), {}))
         /\ UNCHANGED << modern_db, written >>
    ELSE IF fault = "load" \/ Rejects(name, df)
    THEN /\ StepReturns(name, MigrationResult(FALSE, Len(df), 0, {message}))
         /\ UNCHANGED << modern_db, written >>
    ELSE /\ StepReturns(name, MigrationResult(TRUE, Len(df), Len(df), {}))
         /\ Writes(name, df)

\* Mutant of ValidatedStep: the validation errors are not looked at.
ValidatedStep_NoValidation(name, errors, fault, message) ==
    /\ step = name
    /\ LET df == legacy_db[name]
       IN IF fault = "extract"
          THEN /\ StepReturns(name, MigrationResult(FALSE, 0, 0, {message}))
               /\ UNCHANGED << modern_db, written >>
          ELSE Loads(name, df, fault, message)
    /\ UNCHANGED << now, store, driver, ghost, initial, reply, overrides,
                    calc, config, legacy_db >>

\* A step with validation (migrate_users lines 92-149, migrate_subscriptions
\* lines 237-296): extract, transform, validate, load.
ValidatedStep(name, errors, fault, message) ==
    /\ step = name
    /\ LET df == legacy_db[name]
       IN IF fault = "extract"
          THEN /\ StepReturns(name, MigrationResult(FALSE, 0, 0, {message}))
               /\ UNCHANGED << modern_db, written >>
          ELSE IF config.validate_data /\ errors # {}
          THEN /\ StepReturns(name,
                              MigrationResult(FALSE, Len(df), 0, errors))
               /\ UNCHANGED << modern_db, written >>
          ELSE Loads(name, df, fault, message)
    /\ UNCHANGED << now, store, driver, ghost, initial, reply, overrides,
                    calc, config, legacy_db >>

\* main, lines 631-634: the script calls migrate_all_data.
migrate_all_data ==
    /\ step = "idle"
    /\ step' = "users"
    /\ UNCHANGED << now, store, driver, ghost, initial, reply, overrides,
                    calc, config, legacy_db, modern_db, migration, written >>

migrate_users(fault) ==
    ValidatedStep("users", validate_user_data(legacy_db["users"]), fault,
                  "User migration error")

\* migrate_subscription_plans, lines 466-499: no validation.  records_migrated
\* is first assigned inside the try, after the extraction: when the
\* extraction raises, the return statement raises UnboundLocalError, which
\* leaves migrate_all_data through its except clause (lines 81-83).
migrate_subscription_plans(fault) ==
    /\ step = "subscription_plans"
    /\ IF fault = "extract"
       THEN /\ step' = "raised"
            /\ UNCHANGED << modern_db, migration, written >>
       ELSE Loads("subscription_plans", legacy_db["subscription_plans"],
                  fault, "Plan migration error")
    /\ UNCHANGED << now, store, driver, ghost, initial, reply, overrides,
                    calc, config, legacy_db >>

migrate_subscriptions(fault) ==
    ValidatedStep("subscriptions",
                  validate_subscription_data(legacy_db["subscriptions"]),
                  fault, "Subscription migration error")

\* migrate_billing_history, lines 375-416: no validation.
migrate_billing_history(fault) ==
    /\ step = "billing_history"
    /\ LET df == legacy_db["billing_history"]
       IN IF fault = "extract"
          THEN /\ StepReturns("billing_history",
                              MigrationResult(FALSE, 0, 0,
                                  {"Billing history migration error"}))
               /\ UNCHANGED << modern_db, written >>
          ELSE Loads("billing_history", df, fault,
                     "Billing history migration error")
    /\ UNCHANGED << now, store, driver, ghost, initial, reply, overrides,
                    calc, config, legacy_db >>

RECURSIVE SumLen(_, _)
SumLen(db, T) ==
    IF T = {} THEN 0
    ELSE LET t == CHOOSE x \in T : TRUE
         IN Len(db[t]) + SumLen(db, T \ {t})

\* The tables counted, in the order of _get_legacy_counts (line 586).
CountTables ==
    << "users", "subscriptions", "subscription_plans", "billing_history" >>

Differs(t) == Len(legacy_db[t]) # Cardinality(modern_db[t])

\* Mutant of compare_counts: only a modern count that is lower is reported.
RECURSIVE compare_counts_OnlyMissing(_)
compare_counts_OnlyMissing(k) ==
    IF k = 0 THEN << >>
    ELSE compare_counts_OnlyMissing(k - 1)
         \o (IF Len(legacy_db[CountTables[k]])
                  > Cardinality(modern_db[CountTables[k]])
             THEN << CountTables[k] >> ELSE << >>)

\* Lines 559-564: the loop over the first k tables appends one error for a
\* table whose counts differ (the error is given by its table).
RECURSIVE compare_counts(_)
compare_counts(k) ==
    IF k = 0 THEN << >>
    ELSE compare_counts(k - 1)
         \o (IF Differs(CountTables[k]) THEN << CountTables[k] >> ELSE << >>)

VerificationError == "Integrity verification error"

\* What can raise in the try block: the read of the legacy counts, the
\* read of the modern counts, the query of the foreign-key check.
IntegrityFaults == {"none", "legacy", "modern", "foreign_keys"}

\* verify_migration_integrity, lines 547-581: the counts of both databases
\* are read and compared and the foreign keys are checked; whatever raises
\* adds the one error of the except clause to the errors found so far.  The
\* modern database enforces its foreign keys, so the foreign-key check
\* finds no orphaned subscription.
verify_migration_integrity(fault) ==
    /\ step = "integrity_check"
    /\ LET total == SumLen(legacy_db, Range(Tables))
           errors == compare_counts(Len(CountTables))
       IN migration' = migration @@
            ("integrity_check" :>
               IF fault = "legacy"
               THEN MigrationResult(FALSE, 0, 0, << VerificationError >>)
               ELSE IF fault = "modern"
               THEN MigrationResult(FALSE, total, 0, << VerificationError >>)
               ELSE IF fault = "foreign_keys"
               THEN MigrationResult(FALSE, total, 0,
                                    Append(errors, VerificationError))
               ELSE MigrationResult(errors = << >>, total, 0, errors))
    /\ step' = "returned"
    /\ UNCHANGED << now, store, driver, ghost, initial, reply, overrides,
                    calc, config, legacy_db, modern_db, written >>

\* The lifecycle starts from an empty subscriptions table: every
\* subscription is created.
InitSubs ==
    /\ TypeInitDriver
    /\ NoMigration
    /\ subs = << >>

\* ------------------------------------------------------- specifications
Driver(j) ==
    \/ \E ok \in BOOLEAN : Begin(j, ok)
    \/ \E ok \in BOOLEAN : QueryDue(j, ok)
    \/ \E ok \in BOOLEAN : SetTotal(j, ok)
    \/ StartBatch(j)
    \/ \E ok \in BOOLEAN : RecordBatch(j, ok)
    \/ SleepDone(j)
    \/ \E ok \in BOOLEAN : Complete(j, ok)
    \/ \E ok \in BOOLEAN : Handler(j, ok)
    \/ CancelDriver(j)

Attempt(j) ==
    \/ \E s \in inflight[j] : \E g \in GatewayOutcomes : AttemptReturns(j, s, g)
    \/ \E s \in inflight[j] : AttemptRaises(j, s)

\* One billing cycle over the small population, every outcome of every
\* attempt, store failures, cancellation of the driver and the clock.
Next ==
    \/ StartBillingCycle(1)
    \/ Driver(1)
    \/ Attempt(1)
    \/ Tick

Spec == Init /\ [][Next]_vars

\* Successive billing cycles over the small population: a job is triggered
\* when the one before it has ended.
MayStart(j) ==
    /\ \A k \in JobIds \ {j} : ~Running(k)
    /\ \A k \in JobIds : k < j => pc[k] # "idle"

NextCycles ==
    \/ \E j \in JobIds : MayStart(j) /\ StartBillingCycle(j)
    \/ \E j \in JobIds : Driver(j)
    \/ \E j \in JobIds : Attempt(j)
    \/ Tick

SpecCycles == Init /\ [][NextCycles]_vars

\* One billing cycle over the large population.  The gateway answers
\* overtake each other only within a window of the tasks in flight, and only
\* the attempts of the first MaxFailing subscriptions may be other than
\* approved.
InWindow(j, s) ==
    Cardinality({ t \in inflight[j] : t < s }) < Window

NextBatches ==
    \/ StartBillingCycle(1)
    \/ Driver(1)
    \/ \E s \in inflight[1] : \E g \in GatewayOutcomes :
          /\ InWindow(1, s)
          /\ g = Approved \/ s <= MaxFailing
          /\ AttemptReturns(1, s, g)
    \/ \E s \in inflight[1] :
          /\ InWindow(1, s)
          /\ s <= MaxFailing
          /\ AttemptRaises(1, s)

SpecBatches == InitBatches /\ [][NextBatches]_vars

\* One billing cycle whose driver task is never cancelled, under the
\* scheduling of the event loop: a task that can take a step takes one, and
\* a gateway call that is awaited is answered.
Run(j) == Driver(j) /\ pc'[j] # "cancelled"

NextFair ==
    \/ StartBillingCycle(1)
    \/ Run(1)
    \/ Attempt(1)
    \/ Tick

SpecFair ==
    /\ Init
    /\ [][NextFair]_vars
    /\ WF_vars(Run(1))
    /\ WF_vars(Attempt(1))

\* One billing cycle, and a second call of the driver with the same job id.
NextRestart ==
    \/ StartBillingCycle(1)
    \/ Driver(1)
    \/ Attempt(1)
    \/ RestartBillingCycle(1)

SpecRestart == Init /\ [][NextRestart]_vars

\* Creation and initial billing of subscriptions while one billing cycle
\* runs and days pass.
NextSubs ==
    \/ StartBillingCycle(1)
    \/ Run(1)
    \/ Attempt(1)
    \/ \E plan_id \in DOMAIN Plans :
       \E trial_days_override \in {NoOverride} \cup 0..MaxOverride :
       \E status \in {"active", "cancelled"} : \E ok \in BOOLEAN :
          CreateSubscription(plan_id, trial_days_override, status, ok)
    \/ \E s \in initial : \E g \in GatewayOutcomes : InitialBilling(s, g)
    \/ NextDay

SpecSubs == InitSubs /\ [][NextSubs]_vars

\* Cancellation of subscriptions while one billing cycle runs.
NextCancel ==
    \/ StartBillingCycle(1)
    \/ Run(1)
    \/ Attempt(1)
    \/ \E subscription_id \in 1..(Len(subs) + 1) : \E ok \in BOOLEAN :
          CancelSubscription(subscription_id, ok)
    \/ Tick

SpecCancel == Init /\ [][NextCancel]_vars

\* One billing cycle over the small population with paused subscriptions.
SpecPaused == InitPaused /\ [][Next]_vars

\* Calls of _calculate_next_billing_date with every date up to MaxCalcDate
\* (midnight or not) and every billing_cycle string.
NextDates ==
    \E current_date \in 0..MaxCalcDate :
    \E billing_cycle \in BillingCycleInputs :
        CalculateNextBillingDate(current_date, billing_cycle)

SpecDates == InitSubs /\ [][NextDates]_vars

\* Billing cycles with different job ids that run at the same time over the
\* same store, each with a session of its own (main.process_billing_cycle
\* queues a driver per request and nothing keeps two requests apart).
NextConcurrent ==
    \/ \E j \in JobIds : StartBillingCycle(j)
    \/ \E j \in JobIds : Run(j)
    \/ \E j \in JobIds : Attempt(j)

SpecConcurrent == Init /\ [][NextConcurrent]_vars

\* The first billing date of subscriptions created at every time up to
\* MaxCalcDate on plans of every billing_cycle string.
NextFirstDates ==
    \E t \in 0..MaxCalcDate : \E billing_cycle \in BillingCycleInputs :
        FirstBillingDate(t, billing_cycle)

SpecFirstDates == InitSubs /\ [][NextFirstDates]_vars

\* One run of the migration script.
NextEtl ==
    \/ migrate_all_data
    \/ \E fault \in Faults : migrate_users(fault)
    \/ \E fault \in Faults : migrate_subscription_plans(fault)
    \/ \E fault \in Faults : migrate_subscriptions(fault)
    \/ \E fault \in Faults : migrate_billing_history(fault)
    \/ \E fault \in IntegrityFaults : verify_migration_integrity(fault)

SpecEtl == InitEtl /\ [][NextEtl]_vars

\* Migration runs while one billing cycle runs.
NextMigrate ==
    \/ StartBillingCycle(1)
    \/ Driver(1)
    \/ Attempt(1)
    \/ \E legacy \in LegacyRows :
       \E target \in {{}} \cup { {r} : r \in BagToSet(history) } :
          MigrateBillingHistory(legacy, target)

SpecMigrate == Init /\ [][NextMigrate]_vars

\* ---------------------------------------------------------------- claims
\* The job records to look at: the committed row and the driver's object.
JobViews(j) ==
    (IF j \in DOMAIN jobs THEN {jobs[j]} ELSE {})
    \cup (IF j \in DOMAIN job THEN {job[j]} ELSE {})

AttemptsOf(j) == { a \in attempts : a.job = j }

RECURSIVE Flatten(_)
Flatten(ss) == IF ss = << >> THEN << >> ELSE Head(ss) \o Flatten(Tail(ss))

\* C1: every job that reaches status completed has
\* processed_count = success_count + failure_count = total_subscriptions,
\* and total_subscriptions is the size of the due set it read.
C1_CompletedJobCounts ==
    \A j \in JobIds : \A r \in JobViews(j) :
        r.status = "completed" =>
            /\ r.processed_count = r.success_count + r.failure_count
            /\ r.processed_count = r.total_subscriptions
            /\ r.total_subscriptions = Len(subscriptions[j])

\* A job over three batches, one attempt of which failed, is completed.
C1_Witness ==
    \E j \in DOMAIN jobs :
        /\ jobs[j].status = "completed"
        /\ jobs[j].total_subscriptions > 2 * batch_size
        /\ \E a \in AttemptsOf(j) : a.outcome # "success"

\* C2: in every state of a job after its creation, in the committed row and
\* in the driver's object, processed_count = success_count + failure_count
\* and processed_count <= total_subscriptions.
C2_CountersConsistent ==
    \A j \in JobIds : \A r \in JobViews(j) :
        /\ r.processed_count = r.success_count + r.failure_count
        /\ r.processed_count <= r.total_subscriptions

\* A job that failed after its first batch was committed, and a job with a
\* batch in flight after an earlier batch was counted.
C2_Witness ==
    \E j \in DOMAIN jobs :
        /\ jobs[j].status = "failed"
        /\ jobs[j].processed_count = batch_size
        /\ jobs[j].total_subscriptions > batch_size

\* C3: at every batch boundary the job's success_count is the number of its
\* attempts that ended in success and its failure_count the number of its
\* attempts that failed (declined, gateway error or exception).
AtBatchBoundary(j) ==
    /\ j \in DOMAIN job
    /\ \/ pc[j] \in {"sleep", "loop"}
       \/ pc[j] = "done" /\ j \in DOMAIN jobs /\ jobs[j].status = "completed"

C3_CountersMatchOutcomes ==
    \A j \in JobIds :
        AtBatchBoundary(j) =>
            /\ job[j].success_count =
                 Cardinality({ a \in AttemptsOf(j) : a.outcome = "success" })
            /\ job[j].failure_count =
                 Cardinality({ a \in AttemptsOf(j) : a.outcome # "success" })

\* The attempt of member s of job j that this step finishes, if any.
Finishing(j, s) ==
    { a \in attempts' \ attempts : a.job = j /\ a.sub = s }

\* The step is the commit of a batch of job j.
CommitsBatch(j) == pc[j] = "gather" /\ pc'[j] = "sleep"

ReasonOf(a) ==
    IF a.gateway = GatewayTimeout THEN "System error: Gateway timeout"
    ELSE a.gateway

RECURSIVE SumCopies(_, _)
SumCopies(R, bag) ==
    IF R = {} THEN 0
    ELSE LET r == CHOOSE x \in R : TRUE
         IN CopiesIn(r, bag) + SumCopies(R \ {r}, bag)

\* The number of rows of a bag that carry the transaction id of an attempt.
RecordCount(bag, j, s) ==
    SumCopies({ r \in BagToSet(bag) : r.transaction_id = << j, s >> }, bag)

\* C4: an attempt whose payment fails sets its subscription to past_due,
\* leaves its next_billing_date and every other subscription as they were
\* and adds exactly one failed record carrying the gateway's failure reason;
\* the commit of its batch writes that status and leaves the date alone.
C4_FailedAttemptEffect ==
    [][ \A j \in JobIds :
          /\ \A s \in inflight[j] : \A a \in Finishing(j, s) :
               a.outcome \in {"declined", "gateway_error"} =>
                 /\ sess'[j][s].status = "past_due"
                 /\ sess'[j][s].next_billing_date = sess[j][s].next_billing_date
                 /\ \A u \in DOMAIN sess[j] \ {s} : sess'[j][u] = sess[j][u]
                 /\ subs' = subs /\ history' = history
                 /\ \E r \in BagToSet(pending'[j]) :
                      /\ r.subscription_id = s
                      /\ r.status = "failed"
                      /\ r.failure_reason = ReasonOf(a)
                      /\ r.failure_reason # NoReason
                      /\ pending'[j] = pending[j] (+) SetToBag({r})
          /\ CommitsBatch(j) =>
               \A a \in AttemptsOf(j) :
                 (a.sub \in DOMAIN results[j]
                    /\ a.outcome \in {"declined", "gateway_error"}) =>
                   /\ subs'[a.sub].status = "past_due"
                   /\ subs'[a.sub].next_billing_date =
                        subs[a.sub].next_billing_date
                   /\ RecordCount(history', j, a.sub) = 1 ]_vars

\* A failed attempt is committed: its subscription is past_due with the date
\* it was seeded with, one failed record is stored, and the other
\* subscription of the batch was billed and advanced.
C4_Witness ==
    \E a \in attempts : \E b \in attempts :
        /\ a.job = b.job /\ a.sub # b.sub
        /\ a.outcome = "declined" /\ b.outcome = "success"
        /\ subs[a.sub].status = "past_due"
        /\ subs[a.sub].next_billing_date <= DateOf(T0)
        /\ subs[b.sub].next_billing_date > T0 + MaxTicks
        /\ RecordCount(history, a.job, a.sub) = 1

CycleDays(cycle) ==
    CASE cycle = "weekly" -> 7
      [] cycle = "monthly" -> 30
      [] cycle = "yearly" -> 365

\* C5: an attempt whose payment succeeds sets its subscription to active
\* and its next_billing_date to the previous next_billing_date plus 7, 30 or
\* 365 days for a weekly, monthly or yearly plan, and adds exactly one
\* success record; the commit of its batch writes that date and status.
C5_SuccessAdvancesFromPreviousDate ==
    [][ \A j \in JobIds :
          /\ \A s \in inflight[j] : \A a \in Finishing(j, s) :
               a.outcome = "success" =>
                 LET cycle == Plans[subs[s].plan_id].billing_cycle
                 IN /\ sess'[j][s].status = "active"
                    /\ sess'[j][s].next_billing_date =
                         sess[j][s].next_billing_date
                           + CycleDays(cycle) * TicksPerDay
                    /\ \E r \in BagToSet(pending'[j]) :
                         /\ r.subscription_id = s
                         /\ r.status = "success"
                         /\ pending'[j] = pending[j] (+) SetToBag({r})
          /\ CommitsBatch(j) =>
               \A a \in AttemptsOf(j) :
                 (a.sub \in DOMAIN results[j] /\ a.outcome = "success") =>
                   LET cycle == Plans[subs[a.sub].plan_id].billing_cycle
                   IN /\ subs'[a.sub].status = "active"
                      /\ subs'[a.sub].next_billing_date =
                           subs[a.sub].next_billing_date
                             + CycleDays(cycle) * TicksPerDay
                      /\ RecordCount(history', j, a.sub) = 1 ]_vars

\* Successful attempts on a weekly, a monthly and a yearly plan are
\* committed, the yearly one 365 days after a date that is not the time of
\* the attempt.
C5_Witness ==
    \E j \in DOMAIN jobs :
        /\ \A c \in {"weekly", "monthly", "yearly"} :
             \E a \in AttemptsOf(j) :
                /\ a.outcome = "success"
                /\ Plans[subs[a.sub].plan_id].billing_cycle = c
                /\ subs[a.sub].status = "active"
                /\ subs[a.sub].next_billing_date > now
                /\ subs[a.sub].next_billing_date # now + CycleDays(c) * TicksPerDay
        /\ pc[j] = "sleep"

\* C6: every finished attempt has produced exactly one BillingHistory
\* record, whatever its outcome (the records of a driver that lost its
\* transaction to a store failure or was cancelled are not looked at).
C6_OneRecordPerAttempt ==
    \A a \in attempts :
        (storeErrors = 0 /\ pc[a.job] # "cancelled") =>
            RecordCount(pending[a.job] (+) history, a.job, a.sub) = 1

\* C7: a subscription that a failed attempt of an earlier, completed job
\* left past_due and still due is in the due list read by the next job.
C7_FailedIsRetried ==
    \A j \in JobIds : \A s \in DOMAIN subs :
        ( /\ pc[j] = "total"
          /\ subs[s].status = "past_due"
          /\ subs[s].next_billing_date <= DateOf(T0)
          /\ \E a \in attempts :
               /\ a.job < j /\ a.sub = s
               /\ a.outcome \in {"declined", "gateway_error"}
               /\ jobs[a.job].status = "completed" )
        => s \in Range(subscriptions[j])

\* C8: in a batch in which an attempt fails or raises, every member still
\* reaches a result, the record and the subscription update of every member
\* whose payment was answered are committed, all members are counted, and
\* the job neither fails nor stops because of it.
C8_BatchIsolation ==
    \A j \in JobIds :
        /\ storeErrors = 0 =>
             /\ pc[j] \notin {"handler", "crashed"}
             /\ j \in DOMAIN jobs => jobs[j].status # "failed"
        /\ AtBatchBoundary(j) =>
             LET members == Range(Flatten(batches[j]))
             IN /\ \A s \in members : \E a \in AttemptsOf(j) : a.sub = s
                /\ \A a \in AttemptsOf(j) :
                     a.outcome # "exception" =>
                       /\ RecordCount(history, j, a.sub) = 1
                       /\ \E r \in BagToSet(history) :
                            /\ r.transaction_id = << j, a.sub >>
                            /\ r.status = IF a.outcome = "success"
                                          THEN "success" ELSE "failed"
                       /\ IF a.outcome = "success"
                          THEN /\ subs[a.sub].status = "active"
                               /\ subs[a.sub].next_billing_date > DateOf(T0)
                          ELSE subs[a.sub].status = "past_due"
                /\ jobs[j].processed_count = Cardinality(members)

\* A job is completed over a first batch of batch_size members of which one
\* failed or raised and all the others were billed.
C8_Witness ==
    \E j \in DOMAIN jobs :
        /\ jobs[j].status = "completed"
        /\ jobs[j].processed_count >= batch_size
        /\ \E a \in AttemptsOf(j) : a.outcome \in {"declined", "exception"}
        /\ Cardinality({ a \in AttemptsOf(j) :
                           a.outcome = "success" /\ a.sub \in Range(batches[j][1]) })
             = batch_size - 1

Ceil(n, d) == (n + d - 1) \div d

\* C9: the batches a job starts are the consecutive slices of batch_size
\* members of the due list, in its order, the last one possibly smaller; a
\* completed job has started ceil(n / batch_size) of them, which cover the
\* list exactly once; for n = 25 they have sizes 10, 10, 5 and the counters
\* of the completed job sum to 25.
C9_Partition ==
    \A j \in JobIds :
        LET b == batches[j]
            n == Len(subscriptions[j])
            completed == j \in DOMAIN jobs /\ jobs[j].status = "completed"
        IN /\ Len(b) <= Ceil(n, batch_size)
           /\ \A k \in 1..Len(b) :
                b[k] = SubSeq(subscriptions[j], (k - 1) * batch_size + 1,
                              Min(k * batch_size, n))
           /\ \A k \in 1..Len(b) :
                Len(b[k]) = IF k < Ceil(n, batch_size) THEN batch_size
                            ELSE n - (k - 1) * batch_size
           /\ completed =>
                /\ Len(b) = Ceil(n, batch_size)
                /\ Flatten(b) = subscriptions[j]
                /\ \A s \in Range(subscriptions[j]) :
                     Cardinality({ k \in 1..Len(b) : s \in Range(b[k]) }) = 1
           /\ (completed /\ n = 25) =>
                /\ [ k \in 1..Len(b) |-> Len(b[k]) ] = << 10, 10, 5 >>
                /\ jobs[j].success_count + jobs[j].failure_count = 25

\* A job over 25 due subscriptions is completed after three batches.
C9_Witness ==
    \E j \in DOMAIN jobs :
        /\ jobs[j].status = "completed"
        /\ Len(subscriptions[j]) = 25
        /\ Len(batches[j]) = 3

\* C10: a driver cancelled after batch 1 of 3 was completed leaves its job
\* in a terminal status with processed_count the size of batch 1.
C10_CancelledJobIsTerminal ==
    \A j \in DOMAIN jobs :
        ( /\ pc[j] = "cancelled"
          /\ Ceil(Len(subscriptions[j]), batch_size) = 3
          /\ Len(batches[j]) = 1
          /\ jobs[j].processed_count = Len(batches[j][1]) )
        => jobs[j].status \in {"completed", "failed"}

TerminalStatus == {"completed", "failed"}

\* C11: every job whose record has been created eventually has a terminal
\* status (completed or failed), whatever the payment outcomes, gateway
\* errors and store errors.
C11_EventuallyTerminal ==
    \A j \in JobIds :
        (j \in DOMAIN jobs) ~>
            (j \in DOMAIN jobs /\ jobs[j].status \in TerminalStatus)

\* C12: once the job id has been handed to the caller, get_job_status of
\* that id returns a job, never None.
C12_StatusAlwaysFound ==
    \A j \in JobIds : pc[j] # "idle" => get_job_status(j) # "None"

\* C13: when a store operation of a driver raised and its except clause
\* has run to its end, the job record has status failed, error_details set
\* and completed_at set.
C13_FatalErrorMarksFailed ==
    \A j \in JobIds :
        (storeErrors > 0 /\ pc[j] = "done") =>
            /\ j \in DOMAIN jobs
            /\ jobs[j].status = "failed"
            /\ jobs[j].error_details # NoReason
            /\ jobs[j].completed_at # NoDate

\* C14: finishing a job whose record is already completed or failed leaves
\* the record as it is and fails with an error that leaves the driver; it
\* never overwrites the first status, error_details or completed_at.
C14_FinishTwiceRejected ==
    [][ \A j \in DOMAIN jobs :
          (pc[j] = "handler" /\ pc'[j] # "handler"
             /\ jobs[j].status \in TerminalStatus) =>
            /\ jobs'[j] = jobs[j]
            /\ pc'[j] = "crashed" ]_vars

\* C15: a job record is created with status running, started_at set and all
\* counters zero; its status only goes from running to completed or from
\* running to failed; once it is completed or failed, the status and the
\* four counters never change again.
C15_StatusLifecycle ==
    [][ \A j \in DOMAIN jobs' :
          /\ j \notin DOMAIN jobs =>
               /\ jobs'[j].status = "running"
               /\ jobs'[j].started_at # NoDate
               /\ jobs'[j].total_subscriptions = 0
               /\ jobs'[j].processed_count = 0
               /\ jobs'[j].success_count = 0
               /\ jobs'[j].failure_count = 0
          /\ (j \in DOMAIN jobs /\ jobs'[j].status # jobs[j].status) =>
               /\ jobs[j].status = "running"
               /\ jobs'[j].status \in TerminalStatus
          /\ (j \in DOMAIN jobs /\ jobs[j].status \in TerminalStatus) =>
               /\ jobs'[j].status = jobs[j].status
               /\ jobs'[j].total_subscriptions = jobs[j].total_subscriptions
               /\ jobs'[j].processed_count = jobs[j].processed_count
               /\ jobs'[j].success_count = jobs[j].success_count
               /\ jobs'[j].failure_count = jobs[j].failure_count ]_vars

\* C19: immediately after a successful attempt the subscription is active
\* and its next_billing_date is not before the time of the attempt, however
\* late the subscription is billed.
C19_NotInPastAfterSuccess ==
    [][ \A j \in JobIds : \A s \in inflight[j] : \A a \in Finishing(j, s) :
          a.outcome = "success" =>
            /\ sess'[j][s].status = "active"
            /\ sess'[j][s].next_billing_date >= now ]_vars

\* C19 as amended: immediately after a successful attempt the subscription
\* is active, and its next_billing_date is not before the time of the
\* attempt exactly when the attempt is made no later than one cycle offset
\* after the date the subscription was due.
C19_NotInPastUnlessCycleLate ==
    [][ \A j \in JobIds : \A s \in inflight[j] : \A a \in Finishing(j, s) :
          a.outcome = "success" =>
            LET cycle == Plans[subs[s].plan_id].billing_cycle
                late == now - sess[j][s].next_billing_date
            IN /\ sess'[j][s].status = "active"
               /\ (sess'[j][s].next_billing_date >= now)
                    <=> (late <= CycleDays(cycle) * TicksPerDay) ]_vars

\* In one batch a subscription due today was billed and is scheduled ahead,
\* and a subscription 40 days overdue was billed and is still scheduled in
\* the past.
C19_Witness ==
    \E a \in attempts : \E b \in attempts :
        /\ a.job = b.job /\ pc[a.job] = "gather"
        /\ a.outcome = "success" /\ b.outcome = "success"
        /\ subs[a.sub].next_billing_date = DateOf(T0)
        /\ sess[a.job][a.sub].next_billing_date >= now
        /\ sess[a.job][a.sub].status = "active"
        /\ subs[b.sub].next_billing_date = DateOf(T0) - timedelta(40)
        /\ sess[b.job][b.sub].next_billing_date < now

\* C16: in every state every subscription has status cancelled if and only
\* if its cancelled_at is set, also when it is cancelled while a billing
\* attempt on it is in flight.
C16_CancelledIffCancelledAt ==
    \A s \in DOMAIN subs :
        (subs[s].status = "cancelled") <=> (subs[s].cancelled_at # NoDate)

\* The step is a call of cancel_subscription on subscription s.
Cancels(s) == reply'.n = reply.n + 1 /\ reply'.id = s

\* C17: cancel_subscription on a subscription that is already cancelled,
\* when the store does not fail, leaves the subscription as it is, with the
\* cancelled_at of the first cancellation, and returns True.
C17_CancelIdempotent ==
    [][ \A s \in DOMAIN subs :
          (Cancels(s) /\ subs[s].status = "cancelled"
             /\ storeErrors' = storeErrors) =>
            /\ subs'[s] = subs[s]
            /\ reply'.value = TRUE ]_vars

\* C18: cancel_subscription returns False only for a subscription that does
\* not exist; for every existing subscription it returns True and leaves
\* the subscription cancelled with cancelled_at set.
C18_FalseOnlyIfMissing ==
    [][ \A s \in 1..(Len(subs) + 1) :
          Cancels(s) =>
            /\ reply'.value = FALSE => s \notin DOMAIN subs
            /\ s \in DOMAIN subs =>
                 /\ reply'.value = TRUE
                 /\ subs'[s].status = "cancelled"
                 /\ subs'[s].cancelled_at # NoDate ]_vars

\* The subscriptions this step creates, and the attempts it makes.
Created == DOMAIN subs' \ DOMAIN subs
Attempted == attempts' \ attempts

\* No attempt of this step is on a subscription whose trial has not ended.
NoAttemptInTrial ==
    \A a \in Attempted :
        (a.sub \in DOMAIN subs /\ subs[a.sub].trial_ends_at # NoDate) =>
            now >= subs[a.sub].trial_ends_at

\* C20: a subscription created at time t0 on a plan with trial_days = d > 0
\* gets trial_ends_at = t0 + d days and next_billing_date = trial_ends_at,
\* and no billing attempt is made for it before that date.
C20_TrialFromPlan ==
    [][ /\ \A s \in Created :
             LET d == Plans[subs'[s].plan_id].trial_days
             IN d > 0 =>
                  /\ subs'[s].trial_ends_at = now + d * TicksPerDay
                  /\ subs'[s].next_billing_date = subs'[s].trial_ends_at
        /\ NoAttemptInTrial ]_vars

\* C20 as amended: a subscription created at time t0 has a trial of k days,
\* k being the trial_days_override if one greater than 0 is given and the
\* plan's trial_days otherwise; if k > 0 it gets trial_ends_at = t0 + k days
\* and next_billing_date = trial_ends_at, and no billing attempt is made for
\* it before that date, by the initial-billing task or by a job.
C20_TrialFromOverrideOrPlan ==
    [][ /\ \A s \in Created :
             LET d == Plans[subs'[s].plan_id].trial_days
                 o == overrides'[s]
                 k == IF o > 0 THEN o ELSE d
             IN IF k > 0
                THEN /\ subs'[s].trial_ends_at = now + k * TicksPerDay
                     /\ subs'[s].next_billing_date = subs'[s].trial_ends_at
                ELSE subs'[s].trial_ends_at = NoDate
        /\ NoAttemptInTrial ]_vars

\* A subscription created on the plan with a trial, without override, has
\* had its initial-billing task run, and a billing-cycle job started after
\* the trial has billed it.
C20_Witness ==
    \E s \in DOMAIN overrides :
        /\ overrides[s] = NoOverride
        /\ Plans[subs[s].plan_id].trial_days > 0
        /\ subs[s].trial_ends_at # NoDate
        /\ s \notin initial
        /\ \E a \in attempts : a.job = 1 /\ a.sub = s
        /\ \A a \in attempts : a.sub = s => a.job = 1

\* C21: at every moment of a batch the number of billing attempts in flight
\* (task started, gateway call not yet returned) is at most the concurrency
\* limit, also for a limit below the batch size: at most 5 of a batch of 10,
\* that is at most batch_size \div 2.
C21_InFlightWithinLimit ==
    \A j \in JobIds : Cardinality(inflight[j]) <= batch_size \div 2

\* One billing cycle whose gateway is not bound to answer: the event loop
\* runs the driver whenever it can take a step, and nothing in the code
\* bounds the wait for a gateway call (the attempt awaits process_payment
\* without a timeout; settings.billing_timeout_seconds is never read).
SpecHang ==
    /\ Init
    /\ [][NextFair]_vars
    /\ WF_vars(Run(1))

C23_StoreFailureIsLocal ==
    [][ \A j \in JobIds :
          (/\ pc[j] = "gather" /\ inflight[j] = {}
           /\ Cardinality(DOMAIN results[j]) > 1
           /\ storeErrors' > storeErrors) =>
            /\ pc'[j] = "sleep"
            /\ \E m \in DOMAIN results[j] :
                 \A s \in DOMAIN results[j] \ {m} :
                   /\ RecordCount(history', j, s) = RecordCount(pending[j], j, s)
                   /\ subs'[s] = FlushSubs(j)[s] ]_vars

C25_HistoryAppendOnly ==
    [][ \A r \in BagToSet(history) :
          CopiesIn(r, history') >= CopiesIn(r, history) ]_vars

\* The members of the batches of job j before its latest one.
EarlierBatches(j) ==
    IF batches[j] = << >> THEN << >>
    ELSE Flatten(SubSeq(batches[j], 1, Len(batches[j]) - 1))

\* C26: the batches of a job run strictly in sequence: while attempts of a
\* batch are in flight they are all of the latest batch, every member of the
\* earlier batches has finished its attempt and processed_count is the total
\* size of the earlier batches; attempts start only when none is in flight;
\* after a batch is counted processed_count is the total size of the batches
\* so far; and processed_count, success_count and failure_count never
\* decrease.
C26_BatchesInSequence ==
    /\ [](\A j \in DOMAIN job :
            /\ pc[j] = "gather" =>
                 /\ batches[j] # << >>
                 /\ inflight[j] \subseteq Range(batches[j][Len(batches[j])])
                 /\ \A s \in Range(EarlierBatches(j)) :
                      \E a \in AttemptsOf(j) : a.sub = s
                 /\ job[j].processed_count = Len(EarlierBatches(j))
            /\ pc[j] \in {"sleep", "loop"} =>
                 /\ inflight[j] = {}
                 /\ job[j].processed_count = Len(Flatten(batches[j]))
                 /\ jobs[j].processed_count = Len(Flatten(batches[j])))
    /\ [][ \A j \in JobIds :
             /\ ~(inflight'[j] \subseteq inflight[j]) =>
                  inflight[j] = {} /\ pc[j] = "loop"
             /\ j \in DOMAIN job =>
                  /\ job'[j].processed_count >= job[j].processed_count
                  /\ job'[j].success_count >= job[j].success_count
                  /\ job'[j].failure_count >= job[j].failure_count
             /\ j \in DOMAIN jobs =>
                  /\ jobs'[j].processed_count >= jobs[j].processed_count
                  /\ jobs'[j].success_count >= jobs[j].success_count
                  /\ jobs'[j].failure_count >= jobs[j].failure_count ]_vars

\* The third batch of a job is in flight after two full batches were counted.
C26_Witness ==
    /\ pc[1] = "gather"
    /\ Len(batches[1]) = 3
    /\ inflight[1] # {}
    /\ results[1] # Empty
    /\ job[1].processed_count = 2 * batch_size

\* C27: total_subscriptions of a job is set exactly once: by the step that
\* follows the read of the due set, before any attempt of the job has
\* started, to the size of the due list that was read; no other step changes
\* it, in the driver's object or in the committed row, whatever becomes due
\* or is cancelled while the job runs.
C27_TotalSetOnce ==
    [][ \A j \in JobIds :
          /\ (j \in DOMAIN job /\ j \in DOMAIN job'
                /\ job'[j].total_subscriptions # job[j].total_subscriptions) =>
               /\ pc[j] = "total"
               /\ job[j].total_subscriptions = 0
               /\ job'[j].total_subscriptions = Len(subscriptions[j])
               /\ batches[j] = << >> /\ AttemptsOf(j) = {}
          /\ (j \in DOMAIN jobs /\ j \in DOMAIN jobs'
                /\ jobs'[j].total_subscriptions # jobs[j].total_subscriptions) =>
               /\ pc[j] = "total" /\ pc'[j] = "loop"
               /\ jobs[j].total_subscriptions = 0
               /\ jobs'[j].total_subscriptions = Len(subscriptions[j])
               /\ batches[j] = << >> /\ AttemptsOf(j) = {}
          /\ (pc[j] = "total" /\ pc'[j] = "loop") =>
               /\ jobs'[j].total_subscriptions = Len(subscriptions[j])
               /\ job'[j].total_subscriptions = Len(subscriptions[j])
          /\ (pc[j] = "query" /\ pc'[j] = "total") =>
               Len(subscriptions'[j]) = Cardinality(DueIds(DateOf(now))) ]_vars

\* A job has completed with the total it read at its start, although one
\* of the subscriptions it read was cancelled and another became due while
\* it ran.
C27_Witness ==
    /\ pc[1] = "done"
    /\ 1 \in DOMAIN jobs
    /\ jobs[1].status = "completed"
    /\ jobs[1].total_subscriptions = 1
    /\ \E s \in Range(subscriptions[1]) : subs[s].cancelled_at > T0 - 1
    /\ \E s \in DOMAIN subs \ Range(subscriptions[1]) :
         /\ subs[s].status = "active"
         /\ subs[s].next_billing_date <= DateOf(now)

\* C28: a job attempts exactly the subscriptions that are active with
\* next_billing_date <= the date of today when it reads its due list, each
\* once: the list it reads is that set, without repetition, and is not
\* changed afterwards; every attempt of the job is on a member of the list,
\* no member is started or attempted twice, and a completed job has
\* attempted every member.  What is cancelled, paused, past due or not yet
\* due when the list is read is not attempted by the job.
C28_ExactlyDueSnapshot ==
    /\ [](\A j \in JobIds :
            LET started == Flatten(batches[j])
            IN /\ \A a \in AttemptsOf(j) : a.sub \in Range(subscriptions[j])
               /\ \A a, b \in AttemptsOf(j) : a.sub = b.sub => a = b
               /\ Range(started) \subseteq Range(subscriptions[j])
               /\ \A m, n \in 1..Len(started) :
                    started[m] = started[n] => m = n
               /\ (j \in DOMAIN jobs /\ jobs[j].status = "completed") =>
                    { a.sub : a \in AttemptsOf(j) } = Range(subscriptions[j]))
    /\ [][ \A j \in JobIds :
             /\ (pc[j] = "query" /\ pc'[j] = "total") =>
                  /\ Range(subscriptions'[j]) =
                       { s \in DOMAIN subs :
                           /\ subs[s].status = "active"
                           /\ subs[s].next_billing_date <= DateOf(now) }
                  /\ Len(subscriptions'[j]) =
                       Cardinality(Range(subscriptions'[j]))
             /\ pc[j] \notin {"query", "done"} =>
                  subscriptions'[j] = subscriptions[j] ]_vars

\* A completed job has attempted the one subscription that was due and
\* active, and not the paused one.
C28_Witness ==
    /\ 1 \in DOMAIN jobs
    /\ jobs[1].status = "completed"
    /\ \E s, u \in DOMAIN subs :
         /\ subs[u].status = "paused"
         /\ \E a \in AttemptsOf(1) : a.sub = s
         /\ \A a \in AttemptsOf(1) : a.sub # u

\* C29: _calculate_next_billing_date returns current_date + 7 days for
\* weekly, + 30 days for monthly, + 365 days for yearly and + 30 days for
\* every other billing_cycle string, and a call changes nothing but its
\* result (equal arguments give equal results).
C29_NextBillingDate ==
    [][ calc' # calc =>
          /\ calc'.result - calc'.current_date =
               TicksPerDay * (CASE calc'.billing_cycle = "weekly" -> 7
                                [] calc'.billing_cycle = "monthly" -> 30
                                [] calc'.billing_cycle = "yearly" -> 365
                                [] OTHER -> 30)
          /\ (calc'.current_date = calc.current_date
                /\ calc'.billing_cycle = calc.billing_cycle) =>
               calc'.result = calc.result
          /\ UNCHANGED << now, store, driver, ghost, initial, reply,
                          overrides, etl >> ]_vars

\* The function was called with a billing_cycle that is no BillingCycle and
\* a date that is not midnight, and returned the date 30 days later.
C29_Witness ==
    /\ calc.billing_cycle = "quarterly"
    /\ calc.current_date % TicksPerDay = 1
    /\ calc.result = calc.current_date + 30 * TicksPerDay

\* C30: every gateway charge the initial-billing task makes for a
\* subscription without a trial leaves exactly one record of the attempt in
\* the committed billing history and the matching update in the committed
\* subscription: active after a success, past_due after a failure.
C30_InitialChargePersisted ==
    \A a \in attempts :
        a.job = 0 =>
            /\ RecordCount(history, 0, a.sub) = 1
            /\ subs[a.sub].status =
                 IF a.outcome = "success" THEN "active" ELSE "past_due"

\* C31: when two billing-cycle jobs with different job ids run at the same
\* time, no subscription is charged by both for the same due
\* next_billing_date: there is no moment at which the gateway calls of two
\* jobs for one subscription and one due date are both in flight.
C31_NoDoubleCharge ==
    \A s \in DOMAIN subs : \A j, k \in JobIds :
        (j # k /\ s \in inflight[j] /\ s \in inflight[k]) =>
            sess[j][s].next_billing_date # sess[k][s].next_billing_date

\* C32: a subscription that cancel_subscription has committed as cancelled
\* while a job is running, before the job has started the attempt on it, is
\* not charged by that job: no step starts an attempt (puts the gateway call
\* in flight) on a subscription whose committed status is cancelled.
C32_CancelledNotCharged ==
    [][ \A j \in JobIds : \A s \in inflight'[j] \ inflight[j] :
          subs[s].status # "cancelled" ]_vars

\* C33: for a subscription created without a trial, create_subscription
\* sets the first next_billing_date to the creation time plus the offset
\* that _calculate_next_billing_date uses for the cycle unit, for every
\* cycle unit, an unrecognized one included.
C33_SameOffsetAtCreation ==
    [][ calc' # calc =>
          calc'.result = calculate_next_billing_date(calc'.current_date,
                                                     calc'.billing_cycle) ]_vars

\* C34: a trial_days_override given to create_subscription decides the
\* trial for every allowed value, 0 included: with an override of k > 0 the
\* trial ends k days after creation, and with an override of 0 there is no
\* trial (trial_ends_at absent, next_billing_date = creation time + cycle
\* offset), whatever the plan's trial_days.
C34_OverrideDecidesTrial ==
    [][ \A s \in Created :
          LET o == overrides'[s]
          IN o # NoOverride =>
               IF o > 0
               THEN /\ subs'[s].trial_ends_at = now + o * TicksPerDay
                    /\ subs'[s].next_billing_date = subs'[s].trial_ends_at
               ELSE /\ subs'[s].trial_ends_at = NoDate
                    /\ subs'[s].next_billing_date =
                         now + TicksPerDay
                               * CycleDays(Plans[subs'[s].plan_id].billing_cycle)
      ]_vars

\* The position of a step in the order of migrate_all_data.
StepNo(name) == CHOOSE k \in 1..Len(Tables) : Tables[k] = name

Succeeded(name) == name \in DOMAIN migration /\ migration[name].success

\* C35: migrate_all_data runs users, subscription_plans, subscriptions,
\* billing_history in this order and stops at the first step that is not
\* successful: a step has run only if every step before it has run and
\* succeeded, a table is written only by its step and in this order, after
\* an unsuccessful step no step runs and nothing is written, and when the
\* run has ended the integrity check has run if and only if all four steps
\* succeeded.
C35_StepsInOrder ==
    /\ [](/\ \A name \in Range(Tables) :
               name \in DOMAIN migration =>
                 \A k \in 1..(StepNo(name) - 1) : Succeeded(Tables[k])
          /\ \A i \in 1..Len(written) :
               /\ Succeeded(written[i])
               /\ \A k \in 1..(i - 1) : StepNo(written[k]) < StepNo(written[i])
          /\ step \in {"returned", "raised"} =>
               ("integrity_check" \in DOMAIN migration
                  <=> \A name \in Range(Tables) : Succeeded(name)))
    /\ [][ (\E name \in DOMAIN migration : ~migration[name].success) =>
             /\ migration' = migration
             /\ modern_db' = modern_db
             /\ written' = written ]_vars

\* The run has ended at the subscriptions step, which failed after the
\* users and the plans were written; the billing history, which has rows,
\* was not migrated and the integrity check did not run.
C35_Witness ==
    /\ step = "returned"
    /\ written = << "users", "subscription_plans" >>
    /\ "subscriptions" \in DOMAIN migration
    /\ ~migration["subscriptions"].success
    /\ legacy_db["billing_history"] # << >>
    /\ DOMAIN migration = {"users", "subscription_plans", "subscriptions"}

\* The extracted rows hold a null in a required field or, for the
\* subscriptions, a status that is not one of the valid statuses.
InvalidData(name, df) ==
    IF name = "users"
    THEN \E i \in 1..Len(df) : df[i].email = Null \/ df[i].name = Null
    ELSE \E i \in 1..Len(df) :
            \/ df[i].user_id = NullId
            \/ df[i].status = Null
            \/ df[i].status \notin valid_statuses

\* C36: when validation is enabled and the extracted user or subscription
\* data holds a null in a required field or an invalid status, the step
\* reports failure with a non-empty error list and records_migrated = 0 and
\* writes nothing to the modern database.
C36_InvalidDataFailsStep ==
    [][ \A name \in {"users", "subscriptions"} :
          (/\ step = name /\ step' # name
           /\ config.validate_data
           /\ InvalidData(name, legacy_db[name])) =>
            /\ name \in DOMAIN migration'
            /\ ~migration'[name].success
            /\ migration'[name].errors # {}
            /\ migration'[name].records_migrated = 0
            /\ modern_db' = modern_db
            /\ written' = written ]_vars

\* With validation enabled the subscriptions were extracted, one of them
\* with an invalid status, and the step has failed on the validation after
\* the users and the plans were written.
C36_Witness ==
    /\ config.validate_data
    /\ ~config.dry_run
    /\ \E i \in 1..Len(legacy_db["subscriptions"]) :
          legacy_db["subscriptions"][i].status = "invalid_status"
    /\ "subscriptions" \in DOMAIN migration
    /\ migration["subscriptions"] =
         MigrationResult(FALSE, Len(legacy_db["subscriptions"]), 0,
                         {"Invalid status values found"})
    /\ written = << "users", "subscription_plans" >>

\* The steps of migrate_all_data that return their result in this step of
\* the run.
Returning == (DOMAIN migration' \ DOMAIN migration) \cap Range(Tables)

ValidationErrors(name) ==
    IF ~config.validate_data THEN {}
    ELSE IF name = "users" THEN validate_user_data(legacy_db[name])
    ELSE IF name = "subscriptions"
    THEN validate_subscription_data(legacy_db[name])
    ELSE {}

Reported(errors, t) == Cardinality({ i \in 1..Len(errors) : errors[i] = t })

\* C38: the consistency check reports success if and only if, for every
\* table, the legacy row count equals the modern row count, and each table
\* whose counts differ, the modern one lower or higher, yields exactly one
\* reported discrepancy.
C38_SuccessIffCountsEqual ==
    "integrity_check" \in DOMAIN migration =>
        LET r == migration["integrity_check"]
        IN /\ r.success <=> \A t \in Range(Tables) : ~Differs(t)
           /\ \A t \in Range(Tables) :
                Differs(t) => Reported(r.errors, t) = 1

\* C38 as amended: the consistency check reports success only if every
\* table has equal counts in both databases and never reports a table whose
\* counts are equal.  When the counts are read and the foreign-key check
\* does not raise, it reports success if and only if all counts are equal
\* and each table whose counts differ, the modern one lower or higher,
\* yields exactly one reported discrepancy.  When something raises, it
\* reports failure with one verification error as its last error, after
\* either one discrepancy for each differing table or none at all.
C38_SuccessIffCountsEqualAndRead ==
    "integrity_check" \in DOMAIN migration =>
        LET r == migration["integrity_check"]
            raised == Reported(r.errors, VerificationError) > 0
            found == SubSeq(r.errors, 1, Len(r.errors) - 1)
        IN /\ r.success => \A t \in Range(Tables) : ~Differs(t)
           /\ \A t \in Range(Tables) :
                ~Differs(t) => Reported(r.errors, t) = 0
           /\ ~raised =>
                /\ r.success <=> \A t \in Range(Tables) : ~Differs(t)
                /\ \A t \in Range(Tables) :
                     Differs(t) => Reported(r.errors, t) = 1
           /\ raised =>
                /\ ~r.success
                /\ Reported(r.errors, VerificationError) = 1
                /\ r.errors[Len(r.errors)] = VerificationError
                /\ \/ found = << >>
                   \/ \A t \in Range(Tables) :
                        Differs(t) => Reported(found, t) = 1

\* The check has compared the counts after a dry run: the modern database
\* has a user the legacy one has not and lacks the plan the legacy one
\* has, and the check has reported failure with one discrepancy for each
\* of the two tables.
C38_Witness ==
    /\ "integrity_check" \in DOMAIN migration
    /\ Len(legacy_db["users"]) < Cardinality(modern_db["users"])
    /\ Len(legacy_db["subscription_plans"])
         > Cardinality(modern_db["subscription_plans"])
    /\ ~migration["integrity_check"].success
    /\ migration["integrity_check"].errors
         = << "users", "subscription_plans" >>
====
